---------------------------- MODULE Spec2Model ----------------------------
(***************************************************************************)
(* A model of the Ringba webhook service (src/app.py): the dedup ledger,   *)
(* the identifier normalizer, the payload repair and the webhook handler   *)
(* with its direct write to the 'Ringba Raw' sheet.                        *)
(*                                                                         *)
(* Python values are records [t, v] with v always a string:                *)
(*   t = "str"  a str (v its text),  t = "num" a number (v its literal),   *)
(*   t = "lit"  None (v = "null").                                         *)
(* A request body is a sequence of lexical tokens of the same shape, with  *)
(*   t = "p" for punctuation and t = "ws" for white space.                 *)
(***************************************************************************)
EXTENDS Integers, Sequences, FiniteSets, TLC

S(x) == [t |-> "str", v |-> x]
N(x) == [t |-> "num", v |-> x]
P(x) == [t |-> "p", v |-> x]
None == [t |-> "lit", v |-> "null"]
SP == [t |-> "ws", v |-> " "]
NL == [t |-> "ws", v |-> "\n"]
\* What dict.get answers for a missing key before the default is applied.
Absent == [t |-> "absent", v |-> ""]

(***************************************************************************)
(* normalize_did: re.sub(r'\D', '', did), then the last 10 digits when at  *)
(* least 10 remain.  A string is a sequence of one-character strings.      *)
(***************************************************************************)
DIGITS == {"0", "1", "2", "3", "4", "5", "6", "7", "8", "9"}

IsDigit(c) == c \in DIGITS

digits_only(did) == SelectSeq(did, IsDigit)

normalize_did_first10(did) ==
    LET d == digits_only(did)
    IN  IF Len(d) >= 10 THEN SubSeq(d, 1, 10) ELSE d

normalize_did(did) ==
    LET d == digits_only(did)
    IN  IF Len(d) >= 10 THEN SubSeq(d, Len(d) - 9, Len(d)) ELSE d

(***************************************************************************)
(* json.loads on a token sequence.  White space between tokens is          *)
(* insignificant.  The texts modelled are flat: an object of scalar        *)
(* members, an array of scalars, or a bare scalar.                         *)
(***************************************************************************)
IsWs(x) == x.t = "ws"

NotWs(x) == x.t # "ws"

IsValue(x) == x.t \in {"str", "num", "lit"}

StripWs(text) == SelectSeq(text, NotWs)

\* text is white-space free: "{" (str ":" value ("," str ":" value)*)? "}"
IsObjectText(text) ==
    /\ Len(text) >= 2
    /\ text[1] = P("{")
    /\ text[Len(text)] = P("}")
    /\ LET n == Len(text) - 2
       IN  \/ n = 0
           \/ /\ n % 4 = 3
              /\ \A i \in 1..n :
                    LET x == text[i + 1]
                    IN  CASE i % 4 = 1 -> x.t = "str"
                          [] i % 4 = 2 -> x = P(":")
                          [] i % 4 = 3 -> IsValue(x)
                          [] OTHER     -> x = P(",")

\* text is white-space free: "[" (value ("," value)*)? "]"
IsArrayText(text) ==
    /\ Len(text) >= 2
    /\ text[1] = P("[")
    /\ text[Len(text)] = P("]")
    /\ LET n == Len(text) - 2
       IN  \/ n = 0
           \/ /\ n % 2 = 1
              /\ \A i \in 1..n :
                    IF i % 2 = 1 THEN IsValue(text[i + 1]) ELSE text[i + 1] = P(",")

IsScalarText(text) == Len(text) = 1 /\ IsValue(text[1])

\* The value json.loads binds to key k: that of the last member named k.
Member(text, k) ==
    LET at == {i \in 1..Len(text) : i % 4 = 2 /\ i + 2 < Len(text) /\ text[i] = S(k)}
    IN  IF at = {} THEN Absent
        ELSE text[(CHOOSE i \in at : \A j \in at : j <= i) + 2]

\* kind "error" is json.JSONDecodeError, "dict" a parsed object (text keeps its
\* members), "other" any other JSON value.
json_loads(raw) ==
    LET text == StripWs(raw)
    IN  IF IsObjectText(text) THEN [kind |-> "dict", text |-> text]
        ELSE IF IsArrayText(text) \/ IsScalarText(text)
             THEN [kind |-> "other", text |-> text]
             ELSE [kind |-> "error", text |-> <<>>]

\* body.get(key, default)
dict_get(body, key, default) ==
    LET x == Member(body.text, key)
    IN  IF x = Absent THEN default ELSE x

(***************************************************************************)
(* The repair pass: four re.sub calls, in order, on the raw text.          *)
(***************************************************************************)
RECURSIVE WsRun(_, _)
WsRun(text, i) ==
    IF i <= Len(text) /\ IsWs(text[i]) THEN 1 + WsRun(text, i + 1) ELSE 0

\* re.sub of ':' ws-run delim by ': null' mid delim, left to right over
\* non-overlapping matches; the run must hold minWs characters and, with
\* needNl, a line break.
\* re.sub works on characters and knows nothing of string literals: in the
\* literal "a:,b" the pattern ':\s*,' matches and the literal becomes "a: null,b".
\* No other literal of the model holds a ':' before a ',' or a '}'.
sub_in_literal(x, delims, minWs, needNl) ==
    IF x = S("a:,b") /\ P(",") \in delims /\ minWs = 0 /\ ~needNl
    THEN S("a: null,b")
    ELSE x

RECURSIVE ReSub(_, _, _, _, _, _)
ReSub(text, i, delims, minWs, needNl, mid) ==
    IF i > Len(text) THEN <<>>
    ELSE LET w == WsRun(text, i + 1)
             j == i + 1 + w
             hit == /\ text[i] = P(":")
                    /\ j <= Len(text)
                    /\ text[j] \in delims
                    /\ w >= minWs
                    /\ needNl => \E k \in (i + 1)..(j - 1) : text[k] = NL
         IN  IF hit
             THEN <<P(":"), SP, None>> \o mid \o <<text[j]>>
                     \o ReSub(text, j + 1, delims, minWs, needNl, mid)
             ELSE <<sub_in_literal(text[i], delims, minWs, needNl)>>
                     \o ReSub(text, i + 1, delims, minWs, needNl, mid)

\* fixed_json after the four substitutions of the handler.
fix_json(raw) ==
    LET p1 == ReSub(raw, 1, {P(",")}, 0, FALSE, <<>>)
        p2 == ReSub(p1, 1, {P("}")}, 0, FALSE, <<>>)
        p3 == ReSub(p2, 1, {P(","), P("}")}, 0, TRUE, <<NL>>)
        p4 == ReSub(p3, 1, {P(","), P("}")}, 1, FALSE, <<>>)
    IN  p4

(***************************************************************************)
(* Bounds of the model.                                                    *)
(***************************************************************************)
\* Requests delivered to the webhook in one behaviour.
MaxRequests == 2
\* Remote calls that fail or time out in one behaviour.
MaxFailures == 1
\* Process restarts in one behaviour.
MaxRestarts == 1
\* Longest input of the normalizer's own specification.
MaxDidLen == 12
\* Longest input, in tokens, of the parser's own specification.
MaxRawLen == 5
\* Event rows appended to 'Ringba Raw' in one behaviour of the reconciliation.
MaxEvents == 3
\* Rows put on the writer's queue in one behaviour of the writer.
MaxQueued == 27
\* Rounds of the writer's loop that find rows, in one behaviour of the writer.
MaxCycles == 2

\* Concurrent executions of the handler coroutine.
Handlers == {"h1", "h2"}

(***************************************************************************)
(* The texts of the 'did' field used in the request bodies, as Python      *)
(* strings and as their characters.                                        *)
(***************************************************************************)
DidTexts == {"", "(555) 123-4567", "5551234567", "12345"}

Chars(text) ==
    CASE text = "(555) 123-4567" ->
           <<"(", "5", "5", "5", ")", " ", "1", "2", "3", "-", "4", "5", "6", "7">>
      [] text = "5551234567" -> <<"5", "5", "5", "1", "2", "3", "4", "5", "6", "7">>
      [] text = "12345" -> <<"1", "2", "3", "4", "5">>
      [] OTHER -> <<>>

Text(chars) == CHOOSE text \in DidTexts : Chars(text) = chars

(***************************************************************************)
(* Request bodies delivered to the webhook.                                *)
(***************************************************************************)
Pair(k, x) == <<S(k), P(":"), x>>

\* {"call_id":"c1","did":"(555) 123-4567","target":"T","payout":10.5}
BodyFull ==
    <<P("{")>> \o Pair("call_id", S("c1")) \o <<P(",")>>
        \o Pair("did", S("(555) 123-4567")) \o <<P(",")>>
        \o Pair("target", S("T")) \o <<P(",")>>
        \o Pair("payout", N("10.5")) \o <<P("}")>>

\* {"call_id":"c2"}
BodyMinimal == <<P("{")>> \o Pair("call_id", S("c2")) \o <<P("}")>>

\* {"call_id":"c1","did":"12345","durationSec": ,"payout":,"revenue":10.5}
BodyRepairable ==
    <<P("{")>> \o Pair("call_id", S("c1")) \o <<P(",")>>
        \o Pair("did", S("12345")) \o <<P(",")>>
        \o <<S("durationSec"), P(":"), SP, P(",")>>
        \o <<S("payout"), P(":"), P(",")>>
        \o Pair("revenue", N("10.5")) \o <<P("}")>>

\* {"call_id":"c2","target":
\* }
BodyNullTarget ==
    <<P("{")>> \o Pair("call_id", S("c2")) \o <<P(",")>>
        \o <<S("target"), P(":"), NL, P("}")>>

\* {"call_id":"c1" "did"}
BodyBroken == <<P("{")>> \o Pair("call_id", S("c1")) \o <<S("did"), P("}")>>

\* {"call_id":"c2","payout": ,,}
BodyBrokenAfterFix ==
    <<P("{")>> \o Pair("call_id", S("c2")) \o <<P(",")>>
        \o <<S("payout"), P(":"), SP, P(","), P(","), P("}")>>

\* {"did":"5551234567"}
BodyNoCallId == <<P("{")>> \o Pair("did", S("5551234567")) \o <<P("}")>>

\* []
BodyArray == <<P("["), P("]")>>

Bodies ==
    {BodyFull, BodyMinimal, BodyRepairable, BodyNullTarget, BodyBroken,
     BodyBrokenAfterFix, BodyNoCallId, BodyArray}

(***************************************************************************)
(* State.                                                                  *)
(***************************************************************************)
VARIABLES
    processed_calls,          \* the table of /tmp/ringba.sqlite: rows (call_id, processed_at)
    clock,                    \* the time: it advances with every request and every insert
    requests,                 \* requests delivered so far
    ringba_raw,               \* the rows of the sheet 'Ringba Raw', top first
    in_flight,                \* remote writes whose wait_for timed out; the thread still runs
    background_writer_queue,  \* the module's queue
    pc,                       \* per handler: where the coroutine is suspended
    call_id,                  \* per handler: body.get("call_id") of its request
    row,                      \* per handler: the row it built
    write_failed,             \* per handler: a remote call of its request failed or timed out
    http,                     \* the last answer of the running process: status and call_id
    failures,                 \* remote calls that failed or timed out so far
    restarts,                 \* the times at which the process restarted
    nd_in,                    \* the normalizer's input, in its own specification
    nd_out,                   \* the normalizer's result for nd_in
    pr_raw,                   \* the parser's input, in its own specification
    pr_body,                  \* what the handler's two-stage parse gives for pr_raw
    RINGBA_CAMPAIGNS,         \* the campaign whitelist, read from the environment
    realtime_dids,            \* the module's cache of the identifiers of 'Real Time'
    did_publisher_map_tab,    \* the rows of the sheet 'DID Publisher Map', top first
    publisher_did_counts_tab, \* the rows of the sheet 'Publisher DID Counts', top first
    did_map_data,             \* refresh_map's local of that name at the end of its last run
    counts_data,              \* refresh_map's local of that name at the end of its last run
    refresh_http,             \* the answer of the last refresh_map
    writer_pc,                \* where the background_writer coroutine is suspended
    rows_to_flush,            \* background_writer's local of that name
    cycles,                   \* the rounds of background_writer's loop that found rows
    cache_pc,                 \* where the background_cache coroutine is
    cache_data,               \* background_cache's local data, of its last rebuild
    cache_next,               \* the place in data of the row its loop takes next
    health,                   \* the last answer of health_check: realtime_dids
    stats,                    \* the last answer of debug_stats: realtime_dids
    poller_pc,                \* where the poller's main is: not started, in its loop, asleep
    existing_call_ids,        \* main's set of that name
    start_time,               \* main's start_time, in minutes
    first_start,              \* the start_time of the poller's first iteration
    utc_now,                  \* the time, in minutes
    report,                   \* the calls the source platform holds
    poll_error                \* the last iteration ended in main's 'except Exception'

vars ==
    <<processed_calls, clock, requests, ringba_raw, in_flight, background_writer_queue, pc,
      call_id, row, write_failed, http, failures, restarts, nd_in, nd_out,
      pr_raw, pr_body, RINGBA_CAMPAIGNS, realtime_dids, did_publisher_map_tab,
      publisher_did_counts_tab, did_map_data, counts_data, refresh_http, writer_pc,
      rows_to_flush, cycles, cache_pc, cache_data, cache_next, health, stats,
      poller_pc, existing_call_ids, start_time, first_start, utc_now, report, poll_error>>

handler_vars == <<pc, call_id, row, write_failed>>

norm_vars == <<nd_in, nd_out>>

parse_vars == <<pr_raw, pr_body>>

refresh_vars ==
    <<RINGBA_CAMPAIGNS, realtime_dids, did_publisher_map_tab, publisher_did_counts_tab,
      did_map_data, counts_data, refresh_http>>

writer_vars == <<writer_pc, rows_to_flush, cycles>>

cache_vars == <<cache_pc, cache_data, cache_next, health, stats>>

poller_vars ==
    <<poller_pc, existing_call_ids, start_time, first_start, utc_now, report, poll_error>>

\* The state of the webhook, its ledger and the event log.
webhook_vars ==
    <<processed_calls, clock, requests, ringba_raw, in_flight, background_writer_queue,
      handler_vars, http, failures, restarts>>

\* The state the webhook's actions never touch.
other_vars == <<norm_vars, poller_vars, cache_vars, parse_vars, refresh_vars, writer_vars>>

(***************************************************************************)
(* The dedup ledger.                                                       *)
(***************************************************************************)
\* WHERE call_id = '?': the placeholder quoted, so that the parameter is not bound.
is_duplicate_quoted(table, id) == \E r \in table : r.call_id = S("?")

\* SELECT 1 FROM processed_calls, the WHERE clause lost.
is_duplicate_any(table, id) == table # {}

\* SELECT 1 FROM processed_calls WHERE call_id = ?
is_duplicate(table, id) == \E r \in table : r.call_id = id

\* INSERT OR REPLACE: an existing record is rewritten.
mark_processed_replace(table, id, now) ==
    {r \in table : r.call_id # id} \cup {[call_id |-> id, processed_at |-> now]}

\* The INSERT without conn.commit(): the record is lost when the connection closes.
mark_processed_nocommit(table, id, now) == table

\* INSERT OR IGNORE INTO processed_calls (call_id) VALUES (?)
mark_processed(table, id, now) ==
    IF \E r \in table : r.call_id = id
    THEN table
    ELSE table \cup {[call_id |-> id, processed_at |-> now]}

\* DROP TABLE, then CREATE TABLE.
init_database_drop(table) == {}

\* CREATE TABLE IF NOT EXISTS processed_calls
init_database(table) == table

(***************************************************************************)
(* The webhook handler, from the request to its first await.               *)
(***************************************************************************)
\* Python truth of a value: None, "" and 0 are false.
Truthy(x) ==
    CASE x.t = "str" -> x.v # ""
      [] x.t = "num" -> x.v \notin {"0", "0.0"}
      [] OTHER -> FALSE

\* a or b
PyOr(a, b) == IF Truthy(a) THEN a ELSE b

\* safe_get(key, default=""): None and "" give the default.
safe_get(body, key) ==
    LET value == dict_get(body, key, S(""))
    IN  IF value = None \/ value = S("") THEN S("") ELSE value

\* The 14 columns of 'Ringba Raw'.
headers ==
    <<S("call_id"), S("call_start_utc"), S("did_raw"), S("did_canon"), S("caller_id"),
      S("duration_sec"), S("disposition"), S("campaign"), S("target"),
      S("publisher_id"), S("publisher_name"), S("payout"), S("revenue"),
      S("_ingested_at")>>

\* The row the handler prepares; now is datetime.now(timezone.utc).
build_row(body, id, did_raw, now) ==
    <<id,
      safe_get(body, "callStartUtc"),
      did_raw,
      S(Text(normalize_did(Chars(did_raw.v)))),
      dict_get(body, "callerId", S("")),
      safe_get(body, "durationSec"),
      safe_get(body, "disposition"),
      PyOr(dict_get(body, "campaignName", S("")), dict_get(body, "campaignId", S(""))),
      safe_get(body, "target"),
      safe_get(body, "publisherId"),
      safe_get(body, "publisherName"),
      safe_get(body, "payout"),
      safe_get(body, "revenue"),
      S(ToString(now))>>

\* A handler that answers at once: nothing is left pending.
Answer(resp, id) == [resp |-> resp, call_id |-> id, row |-> <<>>]

\* The unparseable body is answered by raising instead of a status body.
invalid_json_answer_raise == "http500"

\* return {"status": "error", "message": "Invalid JSON format - could not fix"}
invalid_json_answer == "error"

\* The repair pass applied before any parse.
parse_request_fix_first(raw) == json_loads(fix_json(raw))

\* json.loads(raw_text), and json.loads(fixed_json) when that raises.
parse_request(raw) ==
    LET first == json_loads(raw)
    IN  IF first.kind # "error" THEN first ELSE json_loads(fix_json(raw))

\* What parse_request gives for each request body of the model.
ParsedBody == [raw \in Bodies |-> parse_request(raw)]

\* The handler up to 'await ensure_headers_exist': resp "pending" goes on to the
\* write; every other resp is the answer.  An exception raised on the way
\* (the HTTPException(400) included) reaches 'except Exception' and leaves as a 500.
webhook_begin(raw, table, now) ==
    LET body == ParsedBody[raw]
    IN  IF body.kind = "error" THEN Answer(invalid_json_answer, None)
        ELSE IF body.kind # "dict" THEN Answer("http500", None)
        ELSE LET id == dict_get(body, "call_id", None)
                 did_raw == dict_get(body, "did", S(""))
                 target == dict_get(body, "target", S(""))
             IN  IF ~Truthy(id) THEN Answer("http500", None)
                 ELSE IF is_duplicate(table, id) THEN Answer("duplicate", id)
                 ELSE IF did_raw.t # "str" THEN Answer("http500", id)
                 ELSE IF target.t # "str" THEN Answer("http500", id)
                 ELSE [resp |-> "pending", call_id |-> id,
                       row |-> build_row(body, id, did_raw, now)]

(***************************************************************************)
(* The remote store.  A call ends "ok", "error" (HttpError) or "timeout"   *)
(* (asyncio.wait_for gave up; the executor thread still runs the call).    *)
(***************************************************************************)
Outcomes == {"ok", "error", "timeout"}

MayEnd(o) == o = "ok" \/ failures < MaxFailures

Count(o) == IF o = "ok" THEN failures ELSE failures + 1

\* values().get(range='Ringba Raw!A1'): the one cell A1, when it holds anything.
get_a1(sheet) == IF sheet = <<>> THEN <<>> ELSE << <<sheet[1][1]>> >>

\* values().update(range='Ringba Raw!A1', body={'values': [headers]})
update_a1(sheet, cells) ==
    IF sheet = <<>> THEN <<cells>> ELSE [sheet EXCEPT ![1] = cells]

\* values().append(range='Ringba Raw!A:N', insertDataOption='INSERT_ROWS')
append_rows(sheet, rows) == sheet \o rows

\* What a remote write does to the store once its thread completes it.
apply_write(sheet, w) ==
    IF w.op = "update" THEN update_a1(sheet, w.rows[1]) ELSE append_rows(sheet, w.rows)

\* if not values or values[0] != headers
headers_missing(values) == values = <<>> \/ values[1] # headers

\* The write's exception leaves the handler instead of being logged.
on_write_error_raise == "raise"

\* except Exception as e: logger.error(...) -- the webhook goes on
on_write_error == "swallow"

(***************************************************************************)
(* Actions.                                                                *)
(***************************************************************************)
Init ==
    /\ processed_calls = {}
    /\ clock = 0
    /\ requests = 0
    /\ ringba_raw = <<>>
    /\ in_flight = {}
    /\ background_writer_queue = <<>>
    /\ pc = [h \in Handlers |-> "idle"]
    /\ call_id = [h \in Handlers |-> None]
    /\ row = [h \in Handlers |-> <<>>]
    /\ write_failed = [h \in Handlers |-> FALSE]
    /\ http = [status |-> "none", call_id |-> None]
    /\ failures = 0
    /\ restarts = <<>>
    /\ nd_in = <<>>
    /\ nd_out = <<>>
    /\ pr_raw = <<>>
    /\ pr_body = [kind |-> "error", text |-> <<>>]
    /\ RINGBA_CAMPAIGNS = {}
    /\ realtime_dids = {}
    /\ did_publisher_map_tab = <<>>
    /\ publisher_did_counts_tab = <<>>
    /\ did_map_data = <<>>
    /\ counts_data = <<>>
    /\ refresh_http = "none"
    /\ writer_pc = "sleep"
    /\ rows_to_flush = <<>>
    /\ cycles = 0
    /\ cache_pc = "sleep"
    /\ cache_data = <<>>
    /\ cache_next = 0
    /\ health = 0
    /\ stats = 0
    /\ poller_pc = "off"
    /\ existing_call_ids = {}
    /\ start_time = 0
    /\ first_start = 0
    /\ utc_now = 0
    /\ report = {}
    /\ poll_error = FALSE

\* A request arrives and the handler runs to its first await or to its answer.
Receive(h, raw) ==
    /\ pc[h] = "idle"
    /\ requests < MaxRequests
    /\ requests' = requests + 1
    /\ LET now == clock + 1
           out == webhook_begin(raw, processed_calls, now)
       IN  /\ clock' = now
           /\ IF out.resp = "pending"
              THEN /\ pc' = [pc EXCEPT ![h] = "hdr_get"]
                   /\ call_id' = [call_id EXCEPT ![h] = out.call_id]
                   /\ row' = [row EXCEPT ![h] = out.row]
                   /\ http' = http
              ELSE /\ http' = [status |-> out.resp, call_id |-> out.call_id]
                   /\ UNCHANGED <<pc, call_id, row>>
    /\ UNCHANGED <<processed_calls, ringba_raw, in_flight, background_writer_queue,
                   write_failed, failures, restarts, other_vars>>

\* ensure_headers_exist: the read of A1.  A failure is logged and the check ends.
HeaderGet(h, o) ==
    /\ pc[h] = "hdr_get"
    /\ MayEnd(o)
    /\ failures' = Count(o)
    /\ write_failed' = [write_failed EXCEPT ![h] = @ \/ o # "ok"]
    /\ pc' = [pc EXCEPT ![h] = IF o = "ok" /\ headers_missing(get_a1(ringba_raw))
                               THEN "hdr_update" ELSE "append"]
    /\ UNCHANGED <<processed_calls, clock, requests, ringba_raw, in_flight,
                   background_writer_queue, call_id, row, http, restarts, other_vars>>

\* ensure_headers_exist: the write of the header row.
HeaderUpdate(h, o) ==
    /\ pc[h] = "hdr_update"
    /\ MayEnd(o)
    /\ failures' = Count(o)
    /\ write_failed' = [write_failed EXCEPT ![h] = @ \/ o # "ok"]
    /\ LET w == [op |-> "update", rows |-> <<headers>>]
       IN  /\ ringba_raw' = IF o = "ok" THEN apply_write(ringba_raw, w) ELSE ringba_raw
           /\ in_flight' = IF o = "timeout" THEN in_flight \cup {w} ELSE in_flight
    /\ pc' = [pc EXCEPT ![h] = "append"]
    /\ UNCHANGED <<processed_calls, clock, requests, background_writer_queue, call_id,
                   row, http, restarts, other_vars>>

\* The handler is left by an answer: its locals are gone.
Leave(h) ==
    /\ pc' = [pc EXCEPT ![h] = "idle"]
    /\ call_id' = [call_id EXCEPT ![h] = None]
    /\ row' = [row EXCEPT ![h] = <<>>]
    /\ write_failed' = [write_failed EXCEPT ![h] = FALSE]

\* append_to_sheet("Ringba Raw", [row]) inside the handler's try.
AppendRow(h, o) ==
    /\ pc[h] = "append"
    /\ MayEnd(o)
    /\ failures' = Count(o)
    /\ LET w == [op |-> "append", rows |-> <<row[h]>>]
       IN  /\ ringba_raw' = IF o = "ok" THEN apply_write(ringba_raw, w) ELSE ringba_raw
           /\ in_flight' = IF o = "timeout" THEN in_flight \cup {w} ELSE in_flight
    /\ IF o = "ok" \/ on_write_error = "swallow"
       THEN /\ pc' = [pc EXCEPT ![h] = "mark"]
            /\ write_failed' = [write_failed EXCEPT ![h] = @ \/ o # "ok"]
            /\ UNCHANGED <<call_id, row, http>>
       ELSE /\ Leave(h)
            /\ http' = [status |-> "http500", call_id |-> call_id[h]]
    /\ UNCHANGED <<processed_calls, clock, requests, background_writer_queue, restarts,
                   other_vars>>

\* mark_processed(call_id); return {"status": "success"}
MarkProcessed(h) ==
    /\ pc[h] = "mark"
    /\ clock' = clock + 1
    /\ processed_calls' = mark_processed(processed_calls, call_id[h], clock')
    /\ http' = [status |-> "success", call_id |-> call_id[h]]
    /\ Leave(h)
    /\ UNCHANGED <<requests, ringba_raw, in_flight, background_writer_queue, failures,
                   restarts, other_vars>>

\* A write whose wait_for timed out is completed by its thread after all.
Land(w) ==
    /\ w \in in_flight
    /\ ringba_raw' = apply_write(ringba_raw, w)
    /\ in_flight' = in_flight \ {w}
    /\ UNCHANGED <<processed_calls, clock, requests, background_writer_queue,
                   handler_vars, http, failures, restarts, other_vars>>

\* The process restarts: memory is lost, startup_event runs init_database.
Restart ==
    /\ Len(restarts) < MaxRestarts
    /\ restarts' = Append(restarts, clock)
    /\ http' = [status |-> "none", call_id |-> None]
    /\ processed_calls' = init_database(processed_calls)
    /\ background_writer_queue' = <<>>
    /\ pc' = [h \in Handlers |-> "idle"]
    /\ call_id' = [h \in Handlers |-> None]
    /\ row' = [h \in Handlers |-> <<>>]
    /\ write_failed' = [h \in Handlers |-> FALSE]
    /\ UNCHANGED <<clock, requests, ringba_raw, in_flight, failures, other_vars>>

Next ==
    \/ \E h \in Handlers, raw \in Bodies : Receive(h, raw)
    \/ \E h \in Handlers, o \in Outcomes : HeaderGet(h, o)
    \/ \E h \in Handlers, o \in Outcomes : HeaderUpdate(h, o)
    \/ \E h \in Handlers, o \in Outcomes : AppendRow(h, o)
    \/ \E h \in Handlers : MarkProcessed(h)
    \/ \E w \in in_flight : Land(w)
    \/ Restart

Spec == Init /\ [][Next]_vars

(***************************************************************************)
(* The normalizer on its own: every string over DidAlphabet of at most     *)
(* MaxDidLen characters is an input.                                       *)
(***************************************************************************)
DidAlphabet == {"1", "2", "-"}

\* normalize_did of ringba_pull_to_sheets.py: '' for a false did, else as above.
pull_normalize_did(did) ==
    IF did = <<>> THEN <<>>
    ELSE LET d == digits_only(did)
         IN  IF Len(d) >= 10 THEN SubSeq(d, Len(d) - 9, Len(d)) ELSE d

Normalize(c) ==
    /\ Len(nd_in) < MaxDidLen
    /\ nd_in' = Append(nd_in, c)
    /\ nd_out' = normalize_did(nd_in')
    /\ UNCHANGED <<webhook_vars, parse_vars, refresh_vars, writer_vars, cache_vars,
                   poller_vars>>

NextNorm == \E c \in DidAlphabet : Normalize(c)

SpecNorm == Init /\ [][NextNorm]_vars

(***************************************************************************)
(* The two-stage parse on its own: every text over RawAlphabet of at most  *)
(* MaxRawLen tokens is an input.                                           *)
(***************************************************************************)
RawAlphabet == {P("{"), P("}"), P(":"), P(","), SP, S("call_id"), S("a:,b")}

Parse(x) ==
    /\ Len(pr_raw) < MaxRawLen
    /\ pr_raw' = Append(pr_raw, x)
    /\ pr_body' = parse_request(pr_raw')
    /\ UNCHANGED <<webhook_vars, norm_vars, poller_vars, cache_vars, refresh_vars, writer_vars>>

NextParse == \E x \in RawAlphabet : Parse(x)

SpecParse == Init /\ [][NextParse]_vars

(***************************************************************************)
(* The reconciliation: refresh_map, and the cache it consults.             *)
(***************************************************************************)
\* The start timestamps of the event rows, in the order of Python's str '<'.
T1 == "2024-05-01T10:00:00Z"

T2 == "2024-05-02T09:00:00Z"

TimeTexts == <<"", T1, T2>>

\* a > b on str
str_gt(a, b) ==
    LET rank(x) == CHOOSE i \in 1..Len(TimeTexts) : TimeTexts[i] = x
    IN  rank(a) > rank(b)

\* str(x).strip(), as text; " 111" is the one text of the model with white
\* space at an end.
py_strip(x) == IF x.v = " 111" THEN "111" ELSE x.v

\* A row of 'Ringba Raw' as the webhook writes it: 14 cells.
EventRow(id, start, did, campaign, publisher_id, publisher_name) ==
    <<S(id), S(start), S(did), S(did), S(""), S(""), S(""), S(campaign), S(""),
      S(publisher_id), S(publisher_name), S(""), S(""), S("2024-05-03T00:00:00Z")>>

\* A row cut short by hand: it holds an identifier and a campaign, no publisher.
ShortRow == <<S("a6"), S(T2), S("111"), S("111"), S(""), S(""), S(""), S("A"), S("x")>>

EventRows ==
    {EventRow("a1", T1, "111", "A", "p1", "P"),
     EventRow("a2", T2, " 111", "A", "q1", "Q"),
     EventRow("a3", T2, "111", "B", "p1", "P"),
     EventRow("a4", T1, "222", "A", "q1", "Q"),
     ShortRow}

\* What a read of 'Real Time!A:N' may return: the header row alone, or with rows.
RealTimeData ==
    {<< <<S("did")>> >>,
     << <<S("did")>>, <<S("111")>> >>,
     << <<S("did")>>, <<S(" 111")>>, <<>>, <<S("222")>>, <<S("")>> >>}

\* The values RINGBA_CAMPAIGNS takes: the variable unset, or set to "A".
Whitelists == {{}, {"A"}}

\* background_cache, one round: the cache is rebuilt from the rows under the
\* header when the read returned more than the header.
background_cache_round(data, dids) ==
    IF Len(data) > 1
    THEN {py_strip(data[i][1]) :
             i \in {j \in 2..Len(data) : data[j] # <<>> /\ py_strip(data[j][1]) # ""}}
    ELSE dids

\* headers.index(name) if name in headers else default, counted from 1.
col_index(hdr, name, default) ==
    LET at == {i \in 1..Len(hdr) : hdr[i] = S(name)}
    IN  IF at = {} THEN default + 1 ELSE CHOOSE i \in at : \A j \in at : i <= j

\* The six column indices refresh_map works with.
columns(hdr) ==
    [call_id        |-> col_index(hdr, "call_id", 0),
     call_start     |-> col_index(hdr, "call_start_utc", 1),
     did_canon      |-> col_index(hdr, "did_canon", 3),
     publisher_name |-> col_index(hdr, "publisher_name", 10),
     publisher_id   |-> col_index(hdr, "publisher_id", 9),
     campaign       |-> col_index(hdr, "campaign", 7)]

\* not (len(row) <= max(...)): the row reaches the greatest of the six indices.
long_enough(rw, c) ==
    \A k \in {c.call_id, c.call_start, c.did_canon, c.publisher_name, c.publisher_id,
              c.campaign} : Len(rw) >= k

\* did_canon in realtime_dids and (not RINGBA_CAMPAIGNS or campaign in RINGBA_CAMPAIGNS)
passes_filter(rw, c, dids, campaigns) ==
    /\ py_strip(rw[c.did_canon]) \in dids
    /\ campaigns = {} \/ py_strip(rw[c.campaign]) \in campaigns

\* The entry a row gives: did_publisher_map[did_canon] = {...}, with its key.
entry_of(rw, c) ==
    [did_canon            |-> py_strip(rw[c.did_canon]),
     publisher_name       |-> py_strip(rw[c.publisher_name]),
     publisher_id         |-> py_strip(rw[c.publisher_id]),
     last_seen_call_start |-> rw[c.call_start].v]

\* The update keeps an entry that is as recent: '>=' in the place of '>'.
keep_latest_ge(map, e) ==
    LET at == {i \in 1..Len(map) : map[i].did_canon = e.did_canon}
    IN  IF at = {} THEN Append(map, e)
        ELSE LET i == CHOOSE i \in at : TRUE
             IN  IF ~str_gt(map[i].last_seen_call_start, e.last_seen_call_start)
                 THEN [map EXCEPT ![i] = e] ELSE map

\* The update takes every entry: the comparison of the timestamps lost.
keep_latest_always(map, e) ==
    LET at == {i \in 1..Len(map) : map[i].did_canon = e.did_canon}
    IN  IF at = {} THEN Append(map, e)
        ELSE [map EXCEPT ![CHOOSE i \in at : TRUE] = e]

\* if did_canon not in did_publisher_map or call_start > ...["last_seen_call_start"].
\* The dict is the sequence of its entries in insertion order; an assignment to
\* a key it holds keeps the key's place.
keep_latest(map, e) ==
    LET at == {i \in 1..Len(map) : map[i].did_canon = e.did_canon}
    IN  IF at = {} THEN Append(map, e)
        ELSE LET i == CHOOSE i \in at : TRUE
             IN  IF str_gt(e.last_seen_call_start, map[i].last_seen_call_start)
                 THEN [map EXCEPT ![i] = e] ELSE map

\* The filter without the test of the cache.
admits_any_did(rw, c, dids, campaigns) ==
    long_enough(rw, c) /\ passes_filter(rw, c, {py_strip(rw[c.did_canon])}, campaigns)

\* The filter without the test of the campaign.
admits_any_campaign(rw, c, dids, campaigns) ==
    long_enough(rw, c) /\ passes_filter(rw, c, dids, {})

\* The body of 'for row in rows' is reached past the 'continue' and the filter.
admits(rw, c, dids, campaigns) ==
    long_enough(rw, c) /\ passes_filter(rw, c, dids, campaigns)

\* An identifier's entry is written once: 'if did_canon not in did_publisher_map'.
scan_row_no_replace(map, rw, c, dids, campaigns) ==
    IF /\ admits(rw, c, dids, campaigns)
       /\ \A i \in 1..Len(map) : map[i].did_canon # entry_of(rw, c).did_canon
    THEN Append(map, entry_of(rw, c))
    ELSE map

\* One iteration of 'for row in rows'.
scan_row(map, rw, c, dids, campaigns) ==
    IF admits(rw, c, dids, campaigns) THEN keep_latest(map, entry_of(rw, c)) ELSE map

\* did_publisher_map after the first k rows under the header.
RECURSIVE scan(_, _, _, _)
scan(raw_data, k, dids, campaigns) ==
    IF k = 0 THEN <<>>
    ELSE scan_row(scan(raw_data, k - 1, dids, campaigns), raw_data[k + 1],
                  columns(raw_data[1]), dids, campaigns)

did_map_headers ==
    <<S("did_canon"), S("publisher_name"), S("publisher_id"), S("last_seen_call_start")>>

counts_headers == <<S("publisher"), S("did_count"), S("last_refreshed")>>

\* did_map_data: the header row, then a row for each entry of the dict.
build_did_map_data(map) ==
    <<did_map_headers>> \o
        [i \in 1..Len(map) |->
            <<S(map[i].did_canon), S(map[i].publisher_name), S(map[i].publisher_id),
              S(map[i].last_seen_call_start)>>]

\* publisher_did_counts[publisher] = 1: the count is set, not added to.
count_publishers_reset(map) ==
    LET first == {i \in 1..Len(map) :
                     \A j \in 1..(i - 1) : map[j].publisher_name # map[i].publisher_name}
        nth(n) == CHOOSE i \in first : Cardinality({j \in first : j <= i}) = n
    IN  [n \in 1..Cardinality(first) |->
            [publisher |-> map[nth(n)].publisher_name, count |-> 1]]

\* publisher_did_counts[publisher] = publisher_did_counts.get(publisher, 0) + 1
\* over the entries: the publishers in the order of their first entry.
count_publishers(map) ==
    LET first == {i \in 1..Len(map) :
                     \A j \in 1..(i - 1) : map[j].publisher_name # map[i].publisher_name}
        nth(n) == CHOOSE i \in first : Cardinality({j \in first : j <= i}) = n
    IN  [n \in 1..Cardinality(first) |->
            [publisher |-> map[nth(n)].publisher_name,
             count |-> Cardinality({j \in 1..Len(map) :
                          map[j].publisher_name = map[nth(n)].publisher_name})]]

\* counts_data: the header row, then a row for each publisher; now is
\* datetime.now(timezone.utc).
build_counts_data(counts, now) ==
    <<counts_headers>> \o
        [i \in 1..Len(counts) |->
            <<S(counts[i].publisher), N(ToString(counts[i].count)), S(ToString(now))>>]

\* values().get(range='<sheet>!A:N'): the rows of the sheet.
read_values(sheet) == sheet

\* values().update(range='<sheet>!A:N', body={'values': data}): the cells of
\* data are written from A1 on; the cells under them keep what they hold.
update_range(sheet, data) == data \o SubSeq(sheet, Len(data) + 1, Len(sheet))

ReadOutcomes == {"ok", "error"}

\* The remote calls of one run that fail are within what the behaviour has left.
MayEndAll(os) ==
    failures + Cardinality({i \in DOMAIN os : os[i] # "ok"}) <= MaxFailures

\* A row reaches 'Ringba Raw' through a delivery or the poller: the header row
\* is in place above it.
LogEvent(rw) ==
    /\ Len(ringba_raw) <= MaxEvents
    /\ ringba_raw' =
          append_rows(IF ringba_raw = <<>> THEN update_a1(ringba_raw, headers)
                      ELSE ringba_raw, <<rw>>)
    /\ UNCHANGED <<processed_calls, clock, requests, in_flight, background_writer_queue,
                   handler_vars, http, failures, restarts, norm_vars, poller_vars, cache_vars, parse_vars,
                   refresh_vars, writer_vars>>

\* background_cache wakes up and reads 'Real Time'.
BackgroundCache(data) ==
    /\ realtime_dids' = background_cache_round(data, realtime_dids)
    /\ UNCHANGED <<webhook_vars, norm_vars, poller_vars, cache_vars, parse_vars, writer_vars, RINGBA_CAMPAIGNS,
                   did_publisher_map_tab, publisher_did_counts_tab, did_map_data,
                   counts_data, refresh_http>>

\* The process starts with RINGBA_CAMPAIGNS read from its environment.
Startup(campaigns) ==
    /\ Len(restarts) < MaxRestarts
    /\ restarts' = Append(restarts, clock)
    /\ RINGBA_CAMPAIGNS' = campaigns
    /\ realtime_dids' = {}
    /\ did_map_data' = <<>>
    /\ counts_data' = <<>>
    /\ refresh_http' = "none"
    /\ processed_calls' = init_database(processed_calls)
    /\ UNCHANGED <<clock, requests, ringba_raw, in_flight, background_writer_queue,
                   handler_vars, http, failures, norm_vars, poller_vars, cache_vars, parse_vars, writer_vars,
                   did_publisher_map_tab, publisher_did_counts_tab>>

\* POST /admin/refresh-map.  The coroutine never yields: its remote calls are
\* made on the event loop's thread.  oR, o1 and o2 are the outcomes of the
\* read and of the two writes.  read_sheet_data answers a failed read with [],
\* which leaves as a 500 like the log without rows; write_sheet_data logs a
\* failed write and returns.
RefreshMap(oR, o1, o2) ==
    /\ requests < MaxRequests
    /\ requests' = requests + 1
    /\ clock' = clock + 1
    /\ LET raw_data == IF oR = "ok" THEN read_values(ringba_raw) ELSE <<>>
       IN  IF Len(raw_data) <= 1
           THEN /\ o1 = "ok" /\ o2 = "ok"
                /\ MayEndAll(<<oR>>)
                /\ failures' = Count(oR)
                /\ refresh_http' = "http500"
                /\ did_map_data' = <<>>
                /\ counts_data' = <<>>
                /\ UNCHANGED <<did_publisher_map_tab, publisher_did_counts_tab>>
           ELSE LET map == scan(raw_data, Len(raw_data) - 1, realtime_dids,
                                RINGBA_CAMPAIGNS)
                    counts == count_publishers(map)
                IN  /\ MayEndAll(<<o1, o2>>)
                    /\ failures' = failures + Cardinality({i \in {1, 2} : <<o1, o2>>[i] # "ok"})
                    /\ did_map_data' = build_did_map_data(map)
                    /\ counts_data' = build_counts_data(counts, clock')
                    /\ did_publisher_map_tab' =
                          IF o1 = "ok"
                          THEN update_range(did_publisher_map_tab, did_map_data')
                          ELSE did_publisher_map_tab
                    /\ publisher_did_counts_tab' =
                          IF o2 = "ok"
                          THEN update_range(publisher_did_counts_tab, counts_data')
                          ELSE publisher_did_counts_tab
                    /\ refresh_http' = "success"
    /\ UNCHANGED <<processed_calls, ringba_raw, in_flight, background_writer_queue,
                   handler_vars, http, restarts, norm_vars, poller_vars, cache_vars, parse_vars, writer_vars,
                   RINGBA_CAMPAIGNS, realtime_dids>>

NextRefresh ==
    \/ \E rw \in EventRows : LogEvent(rw)
    \/ \E data \in RealTimeData : BackgroundCache(data)
    \/ \E campaigns \in Whitelists : Startup(campaigns)
    \/ \E oR \in ReadOutcomes, o1 \in ReadOutcomes, o2 \in ReadOutcomes :
          RefreshMap(oR, o1, o2)

SpecRefresh == Init /\ [][NextRefresh]_vars

(***************************************************************************)
(* The batched writer: background_writer, one coroutine, with the queue it *)
(* drains.  No code of app.py appends to the queue or starts the task, so  *)
(* the queue's content is an input here: rows numbered in the order they   *)
(* are put on it.                                                          *)
(***************************************************************************)
\* The 25 of background_writer_queue[:25] and background_writer_queue[25:].
BatchSize == 25

\* rows_to_flush = background_writer_queue[:]: the whole queue is taken.
take_batch_all(queue) == queue

\* rows_to_flush = background_writer_queue[:25]
take_batch(queue) ==
    SubSeq(queue, 1, IF Len(queue) < BatchSize THEN Len(queue) ELSE BatchSize)

\* background_writer_queue[:] = background_writer_queue[25:]
drop_batch(queue) == SubSeq(queue, BatchSize + 1, Len(queue))

\* The batch is put back at the head of the queue for the next round.
after_failed_append_requeue(queue, rows) == rows \o queue

\* except Exception as e: logger.error(...); await asyncio.sleep(5): the queue
\* is left as the drain left it.
after_failed_append(queue, rows) == queue

\* The exception leaves the coroutine: the task is over.
on_writer_error_exit == "stopped"

\* except Exception as e: the error is logged and the task is at
\* 'await asyncio.sleep(5)', out of 'async with background_writer_lock'.
on_writer_error == "except"

\* 'async with background_writer_lock' is entered after the sleep and left at
\* the end of the round or by the exception.
lock_held == writer_pc \in {"hdr_get", "hdr_update", "drain", "append"}

\* The n-th row put on the queue.
QueuedRow(n) == EventRow(ToString(n), T1, "111", "A", "p1", "P")

\* A row is put on the queue.
Pending ==
    /\ clock < MaxQueued
    /\ clock' = clock + 1
    /\ background_writer_queue' = Append(background_writer_queue, QueuedRow(clock'))
    /\ UNCHANGED <<processed_calls, requests, ringba_raw, in_flight, handler_vars, http,
                   failures, restarts, other_vars>>

\* The sleep is over and the queue holds rows: on to ensure_headers_exist.
WriterWake ==
    /\ writer_pc = "sleep"
    /\ background_writer_queue # <<>>
    /\ cycles < MaxCycles
    /\ cycles' = cycles + 1
    /\ writer_pc' = "hdr_get"
    /\ UNCHANGED <<webhook_vars, norm_vars, poller_vars, cache_vars, parse_vars, refresh_vars, rows_to_flush>>

\* ensure_headers_exist: the read of A1.
WriterHeaderGet(o) ==
    /\ writer_pc = "hdr_get"
    /\ MayEnd(o)
    /\ failures' = Count(o)
    /\ writer_pc' = IF o = "ok" /\ headers_missing(get_a1(ringba_raw))
                    THEN "hdr_update" ELSE "drain"
    /\ UNCHANGED <<processed_calls, clock, requests, ringba_raw, in_flight,
                   background_writer_queue, handler_vars, http, restarts, norm_vars, poller_vars, cache_vars,
                   parse_vars, refresh_vars, rows_to_flush, cycles>>

\* ensure_headers_exist: the write of the header row.
WriterHeaderUpdate(o) ==
    /\ writer_pc = "hdr_update"
    /\ MayEnd(o)
    /\ failures' = Count(o)
    /\ LET w == [op |-> "update", rows |-> <<headers>>]
       IN  /\ ringba_raw' = IF o = "ok" THEN apply_write(ringba_raw, w) ELSE ringba_raw
           /\ in_flight' = IF o = "timeout" THEN in_flight \cup {w} ELSE in_flight
    /\ writer_pc' = "drain"
    /\ UNCHANGED <<processed_calls, clock, requests, background_writer_queue,
                   handler_vars, http, restarts, norm_vars, poller_vars, cache_vars, parse_vars, refresh_vars,
                   rows_to_flush, cycles>>

\* The two slice statements, up to the await of append_to_sheet.
WriterDrain ==
    /\ writer_pc = "drain"
    /\ rows_to_flush' = take_batch(background_writer_queue)
    /\ background_writer_queue' = drop_batch(background_writer_queue)
    /\ writer_pc' = IF rows_to_flush' # <<>> THEN "append" ELSE "sleep"
    /\ UNCHANGED <<processed_calls, clock, requests, ringba_raw, in_flight, handler_vars,
                   http, failures, restarts, norm_vars, poller_vars, cache_vars, parse_vars, refresh_vars, cycles>>

\* append_to_sheet("Ringba Raw", rows_to_flush); a failure is raised to the
\* loop's except clause.
WriterAppend(o) ==
    /\ writer_pc = "append"
    /\ MayEnd(o)
    /\ failures' = Count(o)
    /\ LET w == [op |-> "append", rows |-> rows_to_flush]
       IN  /\ ringba_raw' = IF o = "ok" THEN apply_write(ringba_raw, w) ELSE ringba_raw
           /\ in_flight' = IF o = "timeout" THEN in_flight \cup {w} ELSE in_flight
    /\ background_writer_queue' =
          IF o = "ok" THEN background_writer_queue
          ELSE after_failed_append(background_writer_queue, rows_to_flush)
    /\ writer_pc' = IF o = "ok" THEN "sleep" ELSE on_writer_error
    /\ rows_to_flush' = <<>>
    /\ UNCHANGED <<processed_calls, clock, requests,
                   handler_vars, http, restarts, norm_vars, poller_vars, cache_vars, parse_vars, refresh_vars,
                   cycles>>

\* The sleep of the except clause is over: back to the top of 'while True'.
WriterRecover ==
    /\ writer_pc = "except"
    /\ writer_pc' = "sleep"
    /\ UNCHANGED <<webhook_vars, norm_vars, poller_vars, cache_vars, parse_vars, refresh_vars,
                   rows_to_flush, cycles>>

NextWriter ==
    \/ Pending
    \/ WriterWake
    \/ \E o \in Outcomes : WriterHeaderGet(o)
    \/ \E o \in Outcomes : WriterHeaderUpdate(o)
    \/ WriterDrain
    \/ \E o \in Outcomes : WriterAppend(o)
    \/ WriterRecover
    \/ \E w \in in_flight : Land(w)

SpecWriter == Init /\ [][NextWriter]_vars

(***************************************************************************)
(* background_cache statement by statement, with its readers.  A coroutine *)
(* keeps the event loop until it awaits: the others run only then.         *)
(***************************************************************************)
\* What a read of 'Real Time!A:N' may return: also nothing (the read failed
\* or the sheet is empty) and rows without an identifier.
CacheData ==
    RealTimeData \cup {<<>>, << <<S("did")>>, <<>>, <<S(""), S("note")>> >>}

\* The loop over data[1:] awaits in its body.
rebuild_yields_each_row == TRUE

\* Between 'realtime_dids = set()' and the end of 'for row in data[1:]' the
\* coroutine awaits nothing.
rebuild_yields == FALSE

\* The event loop may run another coroutine.
LoopFree == cache_pc = "sleep" \/ rebuild_yields

\* data = await read_sheet_data("Real Time"); if data and len(data) > 1:
\* realtime_dids = set().  read_sheet_data answers a failed read with [].
CacheRead(d) ==
    /\ cache_pc = "sleep"
    /\ IF Len(d) > 1
       THEN /\ realtime_dids' = {}
            /\ cache_data' = d
            /\ cache_next' = 2
            /\ cache_pc' = "rebuild"
       ELSE UNCHANGED <<realtime_dids, cache_data, cache_next, cache_pc>>
    /\ UNCHANGED <<webhook_vars, norm_vars, poller_vars, parse_vars, writer_vars, RINGBA_CAMPAIGNS,
                   did_publisher_map_tab, publisher_did_counts_tab, did_map_data,
                   counts_data, refresh_http, health, stats>>

\* One round of 'for row in data[1:]', or its end and the sleep.
CacheAdd ==
    /\ cache_pc = "rebuild"
    /\ IF cache_next <= Len(cache_data)
       THEN LET rw == cache_data[cache_next]
            IN  /\ realtime_dids' =
                      IF rw # <<>> /\ py_strip(rw[1]) # ""
                      THEN realtime_dids \cup {py_strip(rw[1])}
                      ELSE realtime_dids
                /\ cache_next' = cache_next + 1
                /\ cache_pc' = cache_pc
       ELSE /\ cache_pc' = "sleep"
            /\ UNCHANGED <<realtime_dids, cache_next>>
    /\ UNCHANGED <<webhook_vars, norm_vars, poller_vars, parse_vars, writer_vars, RINGBA_CAMPAIGNS,
                   did_publisher_map_tab, publisher_did_counts_tab, did_map_data,
                   counts_data, refresh_http, cache_data, health, stats>>

\* GET /healthz: HealthResponse(ok=True, realtime_dids=len(realtime_dids))
HealthCheck ==
    /\ LoopFree
    /\ health' = Cardinality(realtime_dids)
    /\ UNCHANGED <<webhook_vars, norm_vars, poller_vars, parse_vars, writer_vars, refresh_vars,
                   cache_pc, cache_data, cache_next, stats>>

\* GET /debug/stats: "realtime_dids": len(realtime_dids), read once the
\* writer's lock is taken.
DebugStats ==
    /\ LoopFree
    /\ ~lock_held
    /\ stats' = Cardinality(realtime_dids)
    /\ UNCHANGED <<webhook_vars, norm_vars, poller_vars, parse_vars, writer_vars, refresh_vars,
                   cache_pc, cache_data, cache_next, health>>

NextCache ==
    \/ \E d \in CacheData : CacheRead(d)
    \/ CacheAdd
    \/ HealthCheck
    \/ DebugStats
    \/ \E rw \in EventRows : LoopFree /\ ringba_raw = <<>> /\ LogEvent(rw)
    \/ \E oR \in ReadOutcomes, o1 \in ReadOutcomes, o2 \in ReadOutcomes :
          LoopFree /\ RefreshMap(oR, o1, o2)

SpecCache == Init /\ [][NextCache]_vars

(***************************************************************************)
(* The two background tasks side by side, under the event loop's           *)
(* scheduling: every call to the sheet is made under asyncio.wait_for or   *)
(* returns, and a coroutine whose await has ended is resumed.              *)
(***************************************************************************)
\* Rows put on the queue while the two tasks run.
MaxTaskRows == 2

\* What the reads of 'Real Time!A:N' return here: nothing (a failed read) or
\* a header row and one identifier.
TaskData == {<<>>, << <<S("did")>>, <<S("111")>> >>}

NextTasks ==
    \/ clock < MaxTaskRows /\ Pending
    \/ WriterWake
    \/ \E o \in Outcomes : WriterHeaderGet(o)
    \/ \E o \in Outcomes : WriterHeaderUpdate(o)
    \/ WriterDrain
    \/ \E o \in Outcomes : WriterAppend(o)
    \/ WriterRecover
    \/ \E w \in in_flight : Land(w)
    \/ \E d \in TaskData : CacheRead(d)
    \/ CacheAdd
    \/ DebugStats

\* The awaits of a round end: wait_for bounds the calls of ensure_headers_exist
\* and append_to_sheet, asyncio.sleep(5) ends, the loop over the rows ends.
TasksFairness ==
    /\ WF_vars(\E o \in Outcomes : WriterHeaderGet(o))
    /\ WF_vars(\E o \in Outcomes : WriterHeaderUpdate(o))
    /\ WF_vars(WriterDrain)
    /\ WF_vars(\E o \in Outcomes : WriterAppend(o))
    /\ WF_vars(WriterRecover)
    /\ WF_vars(CacheAdd)

SpecTasks == Init /\ [][NextTasks]_vars /\ TasksFairness

(***************************************************************************)
(* The backfill poller: main of ringba_pull_to_sheets.py, a process of its *)
(* own, with the source platform's report and the rows the webhook puts in *)
(* 'Ringba Raw' meanwhile.  Time is counted in minutes.                    *)
(***************************************************************************)
\* The minutes the clock runs through.
MaxNow == 2

\* LOOKBACK_HOURS = 24, in minutes.
LookbackMinutes == 1440

\* start_time = latest_timestamp - timedelta(minutes=5)
ResumeOverlap == 5

\* start_time = end_time - timedelta(minutes=1)
PollOverlap == 1

\* The calls the platform may report; each has its campaign.
CallNames == {"c1", "c2"}

PlatformCampaign(id) == IF id = "c1" THEN "A" ELSE "B"

\* callStartUtc of a call that started at minute m after T1.
PollTimes ==
    <<T1, "2024-05-01T10:01:00Z", "2024-05-01T10:02:00Z", "2024-05-01T10:03:00Z",
      "2024-05-01T10:04:00Z", "2024-05-01T10:05:00Z">>

\* The same instants as format_date_time prints them, four hours behind UTC.
ClockTexts == <<"6:00 AM", "6:01 AM", "6:02 AM", "6:03 AM", "6:04 AM", "6:05 AM">>

TimeText(m) == PollTimes[m + 1]

\* datetime.fromisoformat(timestamp_str.replace('Z', '+00:00')) succeeds.
ParsesAsTime(text) == \E k \in 1..Len(PollTimes) : PollTimes[k] = text

MinuteOf(text) == (CHOOSE k \in 1..Len(PollTimes) : PollTimes[k] = text) - 1

\* format_date_time: (Date, Time) in UTC-4, ("", "") for a text it cannot parse.
format_date_time(text) ==
    IF ParsesAsTime(text)
    THEN <<"5/1/2024", ClockTexts[MinuteOf(text) + 1]>>
    ELSE <<"", "">>

\* The 16 columns write_to_sheets expects in A1:P1.
poller_headers == headers \o <<S("Date"), S("Time")>>

\* prepare_rows_for_sheets, one call: columns A-P.
prepare_row(call, t) ==
    <<S(call.call_id), S(TimeText(call.at)), S("5551234567"),
      S(Text(pull_normalize_did(Chars("5551234567")))), S(""), S(""), S(""),
      S(call.campaign), S(""), S("p1"), S("P"), N("0"), N("0"), S(TimeText(t)),
      S(format_date_time(TimeText(call.at))[1]), S(format_date_time(TimeText(call.at))[2])>>

\* "orderByColumns": callStartUtc desc.
RECURSIVE order_desc(_)
order_desc(calls) ==
    IF calls = {} THEN <<>>
    ELSE LET c == CHOOSE x \in calls : \A y \in calls : y.at <= x.at
         IN  <<c>> \o order_desc(calls \ {c})

\* fetch_ringba_data: the calls of the report between start and end, less
\* those the whitelist filters out; [] when the request fails.
fetch_ringba_data(rep, start, end, campaigns, o) ==
    IF o # "ok" THEN <<>>
    ELSE order_desc({c \in rep : /\ start <= c.at /\ c.at <= end
                                 /\ campaigns = {} \/ c.campaign \in campaigns})

\* get_existing_call_ids: column A under the first row; set() when the read fails.
get_existing_call_ids(sheet, o) ==
    IF o # "ok" THEN {}
    ELSE {py_strip(sheet[i][1]) :
             i \in {j \in 2..Len(sheet) : sheet[j] # <<>> /\ py_strip(sheet[j][1]) # ""}}

\* get_latest_timestamp: the instants of column B under the first row that
\* parse; none when the read fails.
sheet_timestamps(sheet, o) ==
    IF o # "ok" THEN {}
    ELSE {MinuteOf(sheet[i][2].v) :
             i \in {j \in 2..Len(sheet) : Len(sheet[j]) >= 2 /\ ParsesAsTime(sheet[j][2].v)}}

\* main, lines 490-496: where the first iteration starts.
initial_start_time(times, t) ==
    IF times # {}
    THEN (CHOOSE m \in times : \A k \in times : k <= m) - ResumeOverlap
    ELSE t - LookbackMinutes

\* new_calls = [call for call in calls if call.get("call_id") not in existing_call_ids]
RECURSIVE filter_new(_, _)
filter_new(calls, ids) ==
    IF calls = <<>> THEN <<>>
    ELSE (IF Head(calls).call_id \in ids THEN <<>> ELSE <<Head(calls)>>)
            \o filter_new(Tail(calls), ids)

\* write_to_sheets: the check of A1:P1 (a failed read, or a failed update,
\* goes to the except clause, which writes the headers), then the append.
\* raised: an exception left the function.
write_to_sheets(sheet, rows, oH, oU1, oU2, oA) ==
    LET written == update_a1(sheet, poller_headers)
        differs == sheet = <<>> \/ sheet[1] # poller_headers
        hdr == IF oH = "ok" /\ ~differs THEN [sheet |-> sheet, raised |-> FALSE]
               ELSE IF oH = "ok" /\ oU1 = "ok" THEN [sheet |-> written, raised |-> FALSE]
               ELSE IF oU2 = "ok" THEN [sheet |-> written, raised |-> FALSE]
               ELSE [sheet |-> sheet, raised |-> TRUE]
    IN  IF hdr.raised THEN hdr
        ELSE IF oA = "ok" THEN [sheet |-> append_rows(hdr.sheet, rows), raised |-> FALSE]
        ELSE [sheet |-> hdr.sheet, raised |-> TRUE]

\* The failed iteration moves start_time as a successful one does.
after_failed_write_advance(start, end) == end - PollOverlap

\* except Exception as e: start_time is left as it was.
after_failed_write(start, end) == start

\* The platform records a call that starts now.
PlatformCall(id) ==
    /\ \A c \in report : c.call_id # id
    /\ report' = report \cup {[call_id |-> id, at |-> utc_now,
                               campaign |-> PlatformCampaign(id)]}
    /\ UNCHANGED <<webhook_vars, norm_vars, cache_vars, parse_vars, refresh_vars, writer_vars,
                   poller_pc, existing_call_ids, start_time, first_start, utc_now,
                   poll_error>>

\* The row the webhook writes for a call.
WebhookRow(c) == EventRow(c.call_id, TimeText(c.at), "111", c.campaign, "p1", "P")

\* The call_ids of the rows of the event log.
LoggedIds(sheet) ==
    {sheet[i][1].v : i \in {j \in 1..Len(sheet) : sheet[j][1] # S("call_id")}}

\* The webhook receives a call of the platform that is not in the log and
\* appends its row.
WebhookLogs(c) ==
    /\ c \in report
    /\ c.call_id \notin LoggedIds(ringba_raw)
    /\ LogEvent(WebhookRow(c))

\* main up to its loop: the two reads of the sheet and the first start_time.
PollerStart(campaigns, oI, oT) ==
    /\ poller_pc = "off"
    /\ MayEndAll(<<oI, oT>>)
    /\ failures' = failures + Cardinality({i \in {1, 2} : <<oI, oT>>[i] # "ok"})
    /\ RINGBA_CAMPAIGNS' = campaigns
    /\ existing_call_ids' = get_existing_call_ids(ringba_raw, oI)
    /\ start_time' = initial_start_time(sheet_timestamps(ringba_raw, oT), utc_now)
    /\ first_start' = start_time'
    /\ poller_pc' = "loop"
    /\ UNCHANGED <<processed_calls, clock, requests, ringba_raw, in_flight,
                   background_writer_queue, handler_vars, http, restarts, norm_vars,
                   cache_vars, parse_vars, writer_vars, realtime_dids,
                   did_publisher_map_tab, publisher_did_counts_tab, did_map_data,
                   counts_data, refresh_http, utc_now, report, poll_error>>

\* One iteration of main's loop, up to its sleep: process_new_data and the
\* move of start_time, or the except clause.  os are the outcomes of the
\* fetch, of the read of A1:P1, of the two header updates and of the append.
Poll(os) ==
    /\ poller_pc = "loop"
    /\ MayEndAll(os)
    /\ failures' = failures + Cardinality({i \in DOMAIN os : os[i] # "ok"})
    /\ LET end_time == utc_now
           calls == fetch_ringba_data(report, start_time, end_time, RINGBA_CAMPAIGNS, os[1])
           new_calls == filter_new(calls, existing_call_ids)
           rows == [i \in 1..Len(new_calls) |-> prepare_row(new_calls[i], utc_now)]
           w == write_to_sheets(ringba_raw, rows, os[2], os[3], os[4], os[5])
       IN  IF new_calls = <<>>
           THEN /\ \A i \in 2..5 : os[i] = "ok"
                /\ start_time' = end_time - PollOverlap
                /\ poll_error' = FALSE
                /\ UNCHANGED <<ringba_raw, existing_call_ids>>
           ELSE /\ ringba_raw' = w.sheet
                /\ poll_error' = w.raised
                /\ existing_call_ids' =
                      IF w.raised THEN existing_call_ids
                      ELSE existing_call_ids \cup
                              {new_calls[i].call_id : i \in 1..Len(new_calls)}
                /\ start_time' =
                      IF w.raised THEN after_failed_write(start_time, end_time)
                      ELSE end_time - PollOverlap
    /\ poller_pc' = "sleep"
    /\ UNCHANGED <<processed_calls, clock, requests, in_flight, background_writer_queue,
                   handler_vars, http, restarts, norm_vars, cache_vars, parse_vars,
                   writer_vars, refresh_vars, first_start, utc_now, report>>

\* A minute passes; asyncio.sleep(POLL_INTERVAL) of a sleeping poller ends.
\* The clock is followed up to MaxNow; the poller goes on polling after that.
Tick ==
    /\ utc_now < MaxNow \/ poller_pc = "sleep"
    /\ utc_now' = IF utc_now < MaxNow THEN utc_now + 1 ELSE utc_now
    /\ poller_pc' = IF poller_pc = "sleep" THEN "loop" ELSE poller_pc
    /\ UNCHANGED <<webhook_vars, norm_vars, cache_vars, parse_vars, refresh_vars, writer_vars,
                   existing_call_ids, start_time, first_start, report, poll_error>>

PollOutcomes == [1..5 -> ReadOutcomes]

AllOk == [i \in 1..5 |-> "ok"]

NextPoller ==
    \/ \E id \in CallNames : PlatformCall(id)
    \/ \E c \in report : WebhookLogs(c)
    \/ \E campaigns \in Whitelists, oI \in ReadOutcomes, oT \in ReadOutcomes :
          PollerStart(campaigns, oI, oT)
    \/ \E os \in PollOutcomes : Poll(os)
    \/ Tick

\* The clock runs, and an iteration whose calls all succeed is possible at
\* every wake-up: the failures of the platform and of the sheet are transient.
PollerFairness == WF_vars(Tick) /\ WF_vars(Poll(AllOk))

SpecPoller == Init /\ [][NextPoller]_vars /\ PollerFairness

(***************************************************************************)
(* Vocabulary of the properties.                                           *)
(***************************************************************************)
CallIds == {S("c1"), S("c2"), S("c3")}

InLedger(table, id) == \E r \in table : r.call_id = id

\* The rows of the event log that carry call_id id.
RowsOf(sheet, id) == {i \in DOMAIN sheet : sheet[i] # headers /\ sheet[i][1] = id}

\* A delivery of id that passed the dedup check is still being processed: in a
\* handler, or as an append that timed out and may still complete.
Processing(id) ==
    \/ \E h \in Handlers : pc[h] # "idle" /\ call_id[h] = id
    \/ \E w \in in_flight : w.op = "append" /\ w.rows[1][1] = id

Idle == \A h \in Handlers : pc[h] = "idle"

\* The bodies that fail json.loads before and after the repair pass.
UnparseableBodies ==
    {raw \in Bodies :
        json_loads(raw).kind = "error" /\ json_loads(fix_json(raw)).kind = "error"}

Unparseable(raw) == raw \in UnparseableBodies

\* The call_id each body carries once parsed, None when it carries none.
CallIdOfBody ==
    [raw \in Bodies |->
        LET body == parse_request(raw)
        IN  IF body.kind = "dict" THEN dict_get(body, "call_id", None) ELSE None]

CallIdOf(raw) == CallIdOfBody[raw]

(***************************************************************************)
(* C1 as stated: under any interleaving of deliveries the event log holds  *)
(* at most one row per call_id.                                            *)
(***************************************************************************)
C1_AtMostOneRowPerCallId ==
    \A id \in CallIds : Cardinality(RowsOf(ringba_raw, id)) <= 1

(***************************************************************************)
(* C1 as amended: once a call_id is in the ledger and no delivery of it    *)
(* that passed the dedup check earlier is still being processed, that      *)
(* stays so and the event log never receives another row for it.           *)
(***************************************************************************)
C1_NoRowOnceMarkedAndSettled ==
    [][\A id \in CallIds :
          (InLedger(processed_calls, id) /\ ~Processing(id))
              => /\ InLedger(processed_calls', id)
                 /\ ~Processing(id)'
                 /\ Cardinality(RowsOf(ringba_raw', id))
                       <= Cardinality(RowsOf(ringba_raw, id))]_vars

\* Two overlapping deliveries of one call_id each wrote a row and both are settled.
C1_Witness ==
    \E id \in CallIds :
        /\ Cardinality(RowsOf(ringba_raw, id)) = 2
        /\ InLedger(processed_calls, id)
        /\ ~Processing(id)
        /\ restarts = <<>>

(***************************************************************************)
(* C2 as stated: no reachable state has a row for a call_id in the event   *)
(* log while that call_id is absent from the ledger.                       *)
(***************************************************************************)
C2_RowImpliesMarked ==
    \A id \in CallIds : RowsOf(ringba_raw, id) # {} => InLedger(processed_calls, id)

(***************************************************************************)
(* C2 as amended: the dedup record of a call_id is created only by the     *)
(* last step of a handler that has been through its append attempt for     *)
(* that call_id, the step that answers success; and every answer success   *)
(* is about a call_id that is in the ledger.                               *)
(***************************************************************************)
C2_MarkedAfterAppendAttempt ==
    [][/\ \A id \in CallIds :
            (~InLedger(processed_calls, id) /\ InLedger(processed_calls', id))
                => \E h \in Handlers :
                      /\ pc[h] = "mark"
                      /\ call_id[h] = id
                      /\ pc'[h] = "idle"
                      /\ http' = [status |-> "success", call_id |-> id]
       /\ http'.status = "success" => InLedger(processed_calls', http'.call_id)]_vars

\* A row is in the log, its call_id is not yet in the ledger, and the handler
\* that appended it is about to mark it.
C2_Witness ==
    \E h \in Handlers :
        /\ pc[h] = "mark"
        /\ RowsOf(ringba_raw, call_id[h]) # {}
        /\ ~InLedger(processed_calls, call_id[h])
        /\ ~write_failed[h]

(***************************************************************************)
(* C3 as stated, in the form a finite run refutes: when nothing is pending *)
(* any more (every handler idle, no timed-out write in flight, the queue   *)
(* empty), every accepted call_id, which is every call_id of the ledger,   *)
(* has a row in the event log.                                             *)
(***************************************************************************)
C3_AcceptedIsAppended ==
    (Idle /\ in_flight = {} /\ background_writer_queue = <<>>)
        => \A r \in processed_calls : RowsOf(ringba_raw, r.call_id) # {}

(***************************************************************************)
(* C4: a body that fails the parse before and after the repair pass is     *)
(* answered with status error, and the step changes neither the ledger     *)
(* nor the event log.                                                      *)
(***************************************************************************)
C4_UnparseableIsRejected ==
    [][\A h \in Handlers, raw \in Bodies :
          (Receive(h, raw) /\ Unparseable(raw))
              => /\ http'.status = "error"
                 /\ pc'[h] = "idle"
                 /\ UNCHANGED <<processed_calls, ringba_raw, in_flight>>]_vars

\* An unparseable body has been answered.
C4_Witness == http.status = "error" /\ requests > 0

(***************************************************************************)
(* C5: a handler past the dedup check whose header check or append fails   *)
(* or times out goes on, and when it answers, it answers success with its  *)
(* call_id in the ledger.                                                  *)
(***************************************************************************)
C5_WriteFailureStillAccepted ==
    [][\A h \in Handlers :
          /\ \A o \in Outcomes \ {"ok"} :
                (HeaderGet(h, o) \/ HeaderUpdate(h, o) \/ AppendRow(h, o))
                    => pc'[h] \in {"append", "mark"}
          /\ (write_failed[h] /\ pc'[h] = "idle" /\ restarts' = restarts)
                => /\ http' = [status |-> "success", call_id |-> call_id[h]]
                   /\ InLedger(processed_calls', call_id[h])]_vars

\* The one append of the run failed, and its delivery was answered success and
\* is in the ledger.
C5_Witness ==
    /\ http.status = "success"
    /\ InLedger(processed_calls, http.call_id)
    /\ failures > 0
    /\ requests = 1
    /\ RowsOf(ringba_raw, http.call_id) = {}
    /\ in_flight = {}

(***************************************************************************)
(* C6: a delivery whose call_id is in the ledger is answered duplicate,    *)
(* and the step changes neither the ledger, the event log nor the queue,   *)
(* and starts no remote call.                                              *)
(***************************************************************************)
C6_DuplicateIsNoOp ==
    [][\A h \in Handlers, raw \in Bodies :
          (Receive(h, raw) /\ InLedger(processed_calls, CallIdOf(raw)))
              => /\ http' = [status |-> "duplicate", call_id |-> CallIdOf(raw)]
                 /\ UNCHANGED <<processed_calls, ringba_raw, background_writer_queue,
                                in_flight, pc, failures>>]_vars

\* A delivery has been answered duplicate.
C6_Witness == http.status = "duplicate" /\ InLedger(processed_calls, http.call_id)

(***************************************************************************)
(* C7: after mark_processed(x), is_duplicate(x) is true and is_duplicate(y)*)
(* is what it was for every other y.                                       *)
(***************************************************************************)
C7_MarkThenDuplicate ==
    [][\A h \in Handlers :
          MarkProcessed(h)
              => /\ is_duplicate(processed_calls', call_id[h])
                 /\ \A y \in CallIds \ {call_id[h]} :
                       is_duplicate(processed_calls', y)
                           = is_duplicate(processed_calls, y)]_vars

\* One call_id has been marked while another is unmarked.
C7_Witness ==
    /\ http.status = "success"
    /\ is_duplicate(processed_calls, http.call_id)
    /\ \E y \in CallIds : ~is_duplicate(processed_calls, y)

(***************************************************************************)
(* C8: mark_processed(x) with x already in the ledger leaves the ledger,   *)
(* the first-seen record of x included, as it was, and the handler goes on *)
(* to its answer.                                                          *)
(***************************************************************************)
C8_MarkIsIdempotent ==
    [][\A h \in Handlers :
          (MarkProcessed(h) /\ InLedger(processed_calls, call_id[h]))
              => /\ processed_calls' = processed_calls
                 /\ http'.status = "success"]_vars

\* x was marked at an earlier time than now, and a second delivery of x has
\* been marked since: the ledger still holds the first record.
C8_Witness ==
    \E r \in processed_calls :
        /\ http = [status |-> "success", call_id |-> r.call_id]
        /\ r.processed_at < clock
        /\ Cardinality(RowsOf(ringba_raw, r.call_id)) = 2
        /\ Idle
        /\ restarts = <<>>

(***************************************************************************)
(* C9: the ledger only grows, also across a restart: a record once in the  *)
(* ledger is in it in every later state.                                   *)
(***************************************************************************)
C9_LedgerOnlyGrows ==
    [][/\ processed_calls \subseteq processed_calls'
       /\ \A id \in CallIds :
             is_duplicate(processed_calls, id) => is_duplicate(processed_calls', id)]_vars

\* A call_id marked before the restart has been answered duplicate after it.
C9_Witness ==
    /\ Len(restarts) = 1
    /\ http.status = "duplicate"
    /\ \E r \in processed_calls :
          r.call_id = http.call_id /\ r.processed_at <= restarts[1]

(***************************************************************************)
(* C10: normalize_did returns the last 10 digits of its input, in order,   *)
(* when the input holds at least 10 digits, and all its digits, in order,  *)
(* otherwise.                                                              *)
(***************************************************************************)
\* out holds the last min(10, n) of the n digits of in, in their order.
IsLastTenDigits(in, out) ==
    LET at == {i \in 1..Len(in) : IsDigit(in[i])}
        n == Cardinality(at)
        k == IF n >= 10 THEN 10 ELSE n
    IN  /\ Len(out) = k
        /\ \A i \in at :
              LET rank == Cardinality({m \in at : m <= i})
              IN  rank > n - k => out[rank - (n - k)] = in[i]

C10_LastTenDigits ==
    /\ IsLastTenDigits(nd_in, nd_out)
    /\ IsLastTenDigits(nd_in, pull_normalize_did(nd_in))

\* An input of more than 10 digits with a non-digit among them, whose first
\* digit is not the first digit of the result.
C10_Witness ==
    /\ Cardinality({i \in 1..Len(nd_in) : IsDigit(nd_in[i])}) > 10
    /\ \E i \in 1..Len(nd_in) : ~IsDigit(nd_in[i])
    /\ nd_in[1] = "1"
    /\ nd_out[1] = "2"


(***************************************************************************)
(* C11: when the raw body passes the strict parse, the repair pass is not  *)
(* applied: the handler's record is json.loads of the original text, also  *)
(* where the substitutions would have rewritten that text.                 *)
(***************************************************************************)
C11_ValidIsNotRepaired ==
    json_loads(pr_raw).kind # "error" => pr_body = json_loads(pr_raw)

\* {"call_id":"a:,b"} is parsed as it stands, though the repair would rewrite it.
C11_Witness ==
    /\ pr_raw = <<P("{")>> \o Pair("call_id", S("a:,b")) \o <<P("}")>>
    /\ fix_json(pr_raw) # pr_raw
    /\ pr_body.kind = "dict"
    /\ dict_get(pr_body, "call_id", None) = S("a:,b")

(***************************************************************************)
(* Vocabulary of the reconciliation's properties.  The event log carries   *)
(* its header row, so that the columns are where the header names them:    *)
(* call_start_utc 2nd, did_canon 4th, campaign 8th, publisher_id 10th,     *)
(* publisher_name 11th.                                                    *)
(***************************************************************************)
\* A step of refresh_map that got past the read of the event log.
RefreshRan == requests' = requests + 1 /\ did_map_data' # <<>>

\* The rows of the event log that run scanned, by their place under the header.
Scanned == 1..(Len(ringba_raw) - 1)

LogRow(k) == ringba_raw[k + 1]

DidOf(rw) == py_strip(rw[4])

CampaignOf(rw) == py_strip(rw[8])

StartOf(rw) == rw[2].v

\* The row holds every column the scan reads, so that it reaches the filter.
ReachesFilter(rw) == Len(rw) >= 11

InWhitelist(rw) == RINGBA_CAMPAIGNS = {} \/ CampaignOf(rw) \in RINGBA_CAMPAIGNS

\* The places of the rows the run admitted.
AdmittedRows ==
    {k \in Scanned :
        ReachesFilter(LogRow(k)) /\ DidOf(LogRow(k)) \in realtime_dids
            /\ InWhitelist(LogRow(k))}

\* The row of 'DID Publisher Map' that a row of the event log gives.
MapRowOf(rw) == <<S(DidOf(rw)), S(py_strip(rw[11])), S(py_strip(rw[10])), S(StartOf(rw))>>

\* The admitted rows of the identifier of row k whose timestamp none exceeds.
Latest(d) ==
    {k \in AdmittedRows :
        /\ DidOf(LogRow(k)) = d
        /\ \A j \in AdmittedRows :
              DidOf(LogRow(j)) = d => ~str_gt(StartOf(LogRow(j)), StartOf(LogRow(k)))}

\* The mapping entries and the counts a run computed, without their header rows.
Entries(data) == Tail(data)

(***************************************************************************)
(* C12: after a run the mapping holds exactly one entry for each           *)
(* identifier with an admitted row, and the entry is the row of an         *)
(* admitted row of that identifier whose start timestamp none exceeds.     *)
(***************************************************************************)
C12_OneLatestEntryPerIdentifier ==
    [][RefreshRan =>
          LET E == Entries(did_map_data')
          IN  /\ \A k \in AdmittedRows :
                    Cardinality({i \in 1..Len(E) : E[i][1] = S(DidOf(LogRow(k)))}) = 1
              /\ \A i \in 1..Len(E) :
                    \E k \in Latest(E[i][1].v) : E[i] = MapRowOf(LogRow(k))]_vars

\* A run over the log a1 (111, T1, P), a2 (111, T2, Q), a4 (222, T1, Q) with
\* both identifiers cached: 111 is mapped to the later Q, 222 to Q.
C12_Witness ==
    /\ refresh_http = "success"
    /\ Len(ringba_raw) = 4
    /\ ringba_raw[2][1] = S("a1") /\ ringba_raw[3][1] = S("a2") /\ ringba_raw[4][1] = S("a4")
    /\ Entries(did_map_data) = <<MapRowOf(ringba_raw[3]), MapRowOf(ringba_raw[4])>>

(***************************************************************************)
(* C13 as stated: when several admitted rows of an identifier share the    *)
(* greatest start timestamp, the entry is the row of the one encountered   *)
(* last in the scan.                                                       *)
(***************************************************************************)
C13_TieKeepsLastEncountered ==
    [][RefreshRan =>
          LET E == Entries(did_map_data')
          IN  \A i \in 1..Len(E) :
                 LET tied == Latest(E[i][1].v)
                     last == CHOOSE k \in tied : \A j \in tied : j <= k
                 IN  Cardinality(tied) >= 2 => E[i] = MapRowOf(LogRow(last))]_vars

(***************************************************************************)
(* C13 as the code has it: when several admitted rows of an identifier     *)
(* share the greatest start timestamp, the entry is the row of the one     *)
(* encountered first in the scan; a later row replaces it only with a      *)
(* strictly greater timestamp.                                             *)
(***************************************************************************)
C13_TieKeepsFirstEncountered ==
    [][RefreshRan =>
          LET E == Entries(did_map_data')
          IN  \A i \in 1..Len(E) :
                 LET tied == Latest(E[i][1].v)
                     first == CHOOSE k \in tied : \A j \in tied : k <= j
                 IN  Cardinality(tied) >= 2 => E[i] = MapRowOf(LogRow(first))]_vars

\* A run over the log a2 (111, T2, Q), a3 (111, T2, P), a4 (222): the tie of
\* a2 and a3 is settled for a2, the first of the two.
C13_Witness ==
    /\ refresh_http = "success"
    /\ Len(ringba_raw) = 4
    /\ ringba_raw[2][1] = S("a2") /\ ringba_raw[3][1] = S("a3") /\ ringba_raw[4][1] = S("a4")
    /\ RINGBA_CAMPAIGNS = {}
    /\ Entries(did_map_data) = <<MapRowOf(ringba_raw[2]), MapRowOf(ringba_raw[4])>>
    /\ MapRowOf(ringba_raw[2]) # MapRowOf(ringba_raw[3])

\* The entry of did_publisher_map that a row of the event log gives.
EntryOf(rw) ==
    [did_canon            |-> DidOf(rw),
     publisher_name       |-> py_strip(rw[11]),
     publisher_id         |-> py_strip(rw[10]),
     last_seen_call_start |-> StartOf(rw)]

\* did_publisher_map as the run had it after the first k rows of the log.
MapAfter(k) == scan(ringba_raw, k, realtime_dids, RINGBA_CAMPAIGNS)

(***************************************************************************)
(* C14: in the scan the first admitted row of an identifier sets its       *)
(* entry; a later admitted row replaces the entry when its start timestamp *)
(* is strictly greater than the retained one and leaves the map as it is   *)
(* otherwise; a row that is not admitted leaves the map as it is.  The     *)
(* rows written to 'DID Publisher Map' are those of the map after the last *)
(* row.                                                                    *)
(***************************************************************************)
C14_InitThenStrictlyGreater ==
    [][RefreshRan =>
          /\ \A k \in Scanned :
                LET before == MapAfter(k - 1)
                    after == MapAfter(k)
                    e == EntryOf(LogRow(k))
                    at == {i \in 1..Len(before) : before[i].did_canon = e.did_canon}
                IN  IF k \notin AdmittedRows THEN after = before
                    ELSE IF at = {} THEN after = Append(before, e)
                    ELSE \E i \in at :
                            IF str_gt(e.last_seen_call_start,
                                      before[i].last_seen_call_start)
                            THEN after = [before EXCEPT ![i] = e]
                            ELSE after = before
          /\ LET final == MapAfter(Len(ringba_raw) - 1)
                 E == Entries(did_map_data')
             IN  /\ Len(E) = Len(final)
                 /\ \A i \in 1..Len(E) :
                       E[i] = <<S(final[i].did_canon), S(final[i].publisher_name),
                                S(final[i].publisher_id),
                                S(final[i].last_seen_call_start)>>]_vars

\* A run over the log a2 (111, T2, Q), a1 (111, T1, P), a4 (222): a2 sets the
\* entry of 111 and a1, the earlier, leaves it; a4 sets the entry of 222.
C14_Witness ==
    /\ refresh_http = "success"
    /\ Len(ringba_raw) = 4
    /\ ringba_raw[2][1] = S("a2") /\ ringba_raw[3][1] = S("a1") /\ ringba_raw[4][1] = S("a4")
    /\ StartOf(ringba_raw[2]) = T2 /\ StartOf(ringba_raw[3]) = T1
    /\ Entries(did_map_data) = <<MapRowOf(ringba_raw[2]), MapRowOf(ringba_raw[4])>>

(***************************************************************************)
(* C15: an identifier that is not in the cache when a run starts is in     *)
(* none of that run's mapping entries, whatever rows of the event log      *)
(* carry it.                                                               *)
(***************************************************************************)
C15_UncachedIsNeverMapped ==
    [][RefreshRan =>
          \A i \in 1..Len(Entries(did_map_data')) :
             Entries(did_map_data')[i][1].v \in realtime_dids]_vars

\* A run over the log a4 (222), a4 again, a1 (111) with 111 alone in the
\* cache: the mapping holds 111 and not 222, which two rows carry.
C15_Witness ==
    /\ refresh_http = "success"
    /\ realtime_dids = {"111"}
    /\ Len(ringba_raw) = 4
    /\ DidOf(ringba_raw[2]) = "222" /\ DidOf(ringba_raw[3]) = "222"
    /\ ringba_raw[4][1] = S("a1")
    /\ Entries(did_map_data) = <<MapRowOf(ringba_raw[4])>>

C17_CountsAreOfTheEntries ==
    [][RefreshRan =>
          LET E == Entries(did_map_data')
              K == Entries(counts_data')
              named(p) == {i \in 1..Len(E) : E[i][2] = p}
              RECURSIVE total(_)
              total(n) == IF n = 0 THEN 0 ELSE total(n - 1) + Cardinality(named(K[n][1]))
          IN  /\ \A i \in 1..Len(E) :
                    Cardinality({n \in 1..Len(K) : K[n][1] = E[i][2]}) = 1
              /\ \A n \in 1..Len(K) :
                    /\ named(K[n][1]) # {}
                    /\ K[n][2] = N(ToString(Cardinality(named(K[n][1]))))
              /\ total(Len(K)) = Len(E)]_vars

\* A run over the log a1 (111, T1, P), a2 (111, T2, Q), a4 (222, T1, Q): P's
\* only row is superseded, so the counts hold the one row of Q, with 2.
C17_Witness ==
    /\ refresh_http = "success"
    /\ Len(ringba_raw) = 4
    /\ ringba_raw[2][1] = S("a1") /\ ringba_raw[3][1] = S("a2") /\ ringba_raw[4][1] = S("a4")
    /\ ringba_raw[2][11] = S("P")
    /\ Len(did_map_data) = 3
    /\ Len(counts_data) = 2
    /\ counts_data[2][1] = S("Q") /\ counts_data[2][2] = N("2")

(***************************************************************************)
(* C18: after a run that reports success and whose writes went through,    *)
(* 'DID Publisher Map' holds the header row and this run's mapping entries *)
(* and nothing else, and 'Publisher DID Counts' the header row and this    *)
(* run's counts and nothing else.                                          *)
(***************************************************************************)
C18_TablesAreReplacedInFull ==
    [][RefreshMap("ok", "ok", "ok") /\ refresh_http' = "success" =>
          /\ did_publisher_map_tab' = did_map_data'
          /\ publisher_did_counts_tab' = counts_data']_vars

(***************************************************************************)
(* C19: a run in which the write of either table fails does not answer     *)
(* with status success.                                                    *)
(***************************************************************************)
C19_FailedWriteIsSurfaced ==
    [][\A o1 \in ReadOutcomes, o2 \in ReadOutcomes :
          RefreshMap("ok", o1, o2) /\ (o1 # "ok" \/ o2 # "ok")
             => refresh_http' # "success"]_vars

(***************************************************************************)
(* C20: a drain of the writer takes the first min(25, n) of the n rows of  *)
(* the queue, in their order, and leaves the others on the queue in their  *)
(* order; the rows taken are submitted as one remote append, in that       *)
(* order; no batch holds more than 25 rows.                                *)
(***************************************************************************)
C20_DrainTakesFirstTwentyFive ==
    [][/\ writer_pc = "drain" /\ writer_pc' # "drain" =>
             LET n == Len(background_writer_queue)
                 m == IF n < 25 THEN n ELSE 25
             IN  /\ Len(rows_to_flush') = m
                 /\ \A i \in 1..m : rows_to_flush'[i] = background_writer_queue[i]
                 /\ Len(background_writer_queue') = n - m
                 /\ \A i \in 1..(n - m) :
                       background_writer_queue'[i] = background_writer_queue[m + i]
       /\ writer_pc = "append" /\ writer_pc' # "append" =>
             /\ Len(rows_to_flush) \in 1..25
             /\ \/ ringba_raw' = ringba_raw \o rows_to_flush /\ in_flight' = in_flight
                \/ /\ ringba_raw' = ringba_raw
                   /\ in_flight' \in {in_flight,
                                      in_flight \cup {[op |-> "append",
                                                       rows |-> rows_to_flush]}}
             /\ background_writer_queue' = background_writer_queue]_vars

\* 26 rows or more were on the queue at a drain: rows 1 to 25 are in the
\* event log under the header row, in their order, and row 26 heads the queue.
C20_Witness ==
    /\ cycles = 1
    /\ writer_pc = "sleep"
    /\ Len(ringba_raw) = 26
    /\ \A i \in 1..25 : ringba_raw[i + 1] = QueuedRow(i)
    /\ background_writer_queue # <<>>
    /\ background_writer_queue[1] = QueuedRow(26)

(***************************************************************************)
(* C22: no step of a reader of the cache (health_check, debug_stats,       *)
(* refresh_map) falls between the start and the end of a rebuild, and what *)
(* a reader finds is the whole set of the identifiers of the last read     *)
(* that rebuilt the cache, never a part of it.                             *)
(***************************************************************************)
C22_RebuildIsAtomicForReaders ==
    [][HealthCheck \/ DebugStats \/ requests' = requests + 1 =>
          /\ cache_pc = "sleep"
          /\ cache_data # <<>> =>
                realtime_dids = background_cache_round(cache_data, {})]_vars

\* After a rebuild from a read of two identifiers, health_check answered 2
\* and refresh_map mapped an identifier.
C22_Witness ==
    /\ cache_pc = "sleep"
    /\ Len(cache_data) = 5
    /\ realtime_dids = {"111", "222"}
    /\ health = 2
    /\ refresh_http = "success"
    /\ Len(did_map_data) = 2

\* The read returned nothing, the header row alone, or rows whose first cell
\* is missing or blank.
NoIdentifiers(d) == \A i \in 2..Len(d) : d[i] = <<>> \/ py_strip(d[i][1]) = ""

(***************************************************************************)
(* C23: a round of background_cache whose read failed or returned no       *)
(* identifier leaves the cache as it was.                                  *)
(***************************************************************************)
C23_NoIdentifiersKeepsCache ==
    [][\A d \in CacheData :
          CacheRead(d) /\ NoIdentifiers(d) => realtime_dids' = realtime_dids]_vars

\* The rows of a sequence of queued rows.
Queued(rows) == {rows[i] : i \in 1..Len(rows)}

(***************************************************************************)
(* C29: when the append of a batch fails or times out, its rows are off    *)
(* the queue and are dropped: the failure leaves the queue as the drain    *)
(* left it and the log as it was; only a row put on anew ever enters the   *)
(* queue, and a batch is made of rows of the queue only, so that no later  *)
(* round of the writer submits a row of a failed batch.                    *)
(***************************************************************************)
C29_FailedBatchIsDropped ==
    [][/\ writer_pc = "append" /\ writer_pc' # "append" /\ failures' > failures =>
             /\ background_writer_queue' = background_writer_queue
             /\ ringba_raw' = ringba_raw
             /\ Queued(rows_to_flush) \cap Queued(background_writer_queue') = {}
       /\ \A r \in Queued(background_writer_queue') :
             r \notin Queued(background_writer_queue) =>
                 clock' > clock /\ r = QueuedRow(clock')
       /\ rows_to_flush' # rows_to_flush =>
             Queued(rows_to_flush') \subseteq Queued(background_writer_queue)]_vars

\* The append of the first batch failed; the writer is in its second round
\* with a batch of later rows, and no row of the first batch is in the log.
C29_Witness ==
    /\ cycles = 2
    /\ failures = 1
    /\ writer_pc = "append"
    /\ in_flight = {}
    /\ Len(ringba_raw) = 1
    /\ rows_to_flush # <<>>
    /\ QueuedRow(1) \notin Queued(rows_to_flush)

(***************************************************************************)
(* C24: a failure inside a round of background_writer or background_cache  *)
(* never stops the task: wherever a round stands, after a failed call too, *)
(* the task comes back to the top of its loop, where the next round        *)
(* begins, and the writer's lock, whenever held, is released again.        *)
(***************************************************************************)
C24_TasksGoOnAfterFailure ==
    /\ (writer_pc # "sleep") ~> (writer_pc = "sleep")
    /\ lock_held ~> ~lock_held
    /\ (cache_pc # "sleep") ~> (cache_pc = "sleep")

\* The append of the first round failed, the cache's read has been served,
\* and the writer has been through a second round that appended its row.
C24_Witness ==
    /\ failures = 1
    /\ cycles = 2
    /\ writer_pc = "sleep"
    /\ in_flight = {}
    /\ ringba_raw = <<headers, QueuedRow(2)>>
    /\ cache_pc = "sleep"
    /\ realtime_dids = {"111"}
    /\ stats = 1

\* The value a body holds under a key is absent, null or the empty string.
Blank(body, key) == dict_get(body, key, None) \in {None, S("")}

\* The body parses, directly or after the repair, to an object whose call_id
\* is non-empty and not in the ledger.
Acceptable(raw) ==
    /\ ParsedBody[raw].kind = "dict"
    /\ Truthy(dict_get(ParsedBody[raw], "call_id", None))
    /\ ~is_duplicate(processed_calls, dict_get(ParsedBody[raw], "call_id", None))

(***************************************************************************)
(* C25: a payload that parses to an object with a non-empty call_id that   *)
(* is not in the ledger is accepted whichever of its other fields are      *)
(* absent, empty or null: the handler does not raise, it goes on to the    *)
(* write and answers no error.                                             *)
(***************************************************************************)
C25_NewCallIdIsAccepted ==
    [][\A h \in Handlers, raw \in Bodies :
          Receive(h, raw) /\ Acceptable(raw) =>
              /\ pc'[h] = "hdr_get"
              /\ call_id'[h] = dict_get(ParsedBody[raw], "call_id", None)
              /\ http' = http]_vars

(***************************************************************************)
(* C26: in the row the webhook prepares for an event, the payout and the   *)
(* revenue columns hold 0 whenever the payload's payout or revenue is      *)
(* absent, null or empty.                                                  *)
(***************************************************************************)
C26_BlankAmountsAreZero ==
    [][\A h \in Handlers, raw \in Bodies :
          Receive(h, raw) /\ pc'[h] = "hdr_get" =>
              /\ Blank(ParsedBody[raw], "payout") => row'[h][12] \in {N("0"), S("0")}
              /\ Blank(ParsedBody[raw], "revenue") => row'[h][13] \in {N("0"), S("0")}]_vars

\* The body does not parse even after the repair, or parses to an object
\* without a call_id.
Malformed(raw) ==
    \/ ParsedBody[raw].kind = "error"
    \/ /\ ParsedBody[raw].kind = "dict"
       /\ ~Truthy(dict_get(ParsedBody[raw], "call_id", None))

\* The body parses to an object whose call_id is in the ledger.
Duplicate(raw) ==
    /\ ParsedBody[raw].kind = "dict"
    /\ Truthy(dict_get(ParsedBody[raw], "call_id", None))
    /\ is_duplicate(processed_calls, dict_get(ParsedBody[raw], "call_id", None))

(***************************************************************************)
(* C27: a duplicate delivery and a malformed payload, a parseable payload  *)
(* without call_id included, are never answered with a 500.                *)
(***************************************************************************)
C27_MalformedIsNotA500 ==
    [][\A h \in Handlers, raw \in Bodies :
          Receive(h, raw) /\ (Malformed(raw) \/ Duplicate(raw)) =>
              /\ pc'[h] = "idle"
              /\ http'.status # "http500"]_vars

(***************************************************************************)
(* C28: the event log is append-only: a row of an event that is in         *)
(* 'Ringba Raw' is in the same place with the same cells after every step. *)
(***************************************************************************)
C28_LogIsAppendOnly ==
    [][\A i \in DOMAIN ringba_raw :
          ringba_raw[i] # headers =>
              i \in DOMAIN ringba_raw' /\ ringba_raw'[i] = ringba_raw[i]]_vars

(***************************************************************************)
(* C30: ensure_headers_exist writes the header row exactly when the read   *)
(* succeeded and the stored header row is absent or differs from the 14    *)
(* columns; a failed or timed-out read is swallowed and the append is      *)
(* attempted next.                                                         *)
(***************************************************************************)
C30_HeaderWrittenOnlyWhenMissing ==
    [][\A h \in Handlers, o \in Outcomes :
          HeaderGet(h, o) =>
              /\ pc'[h] = "hdr_update" <=>
                    o = "ok" /\ (ringba_raw = <<>> \/ ringba_raw[1] # headers)
              /\ pc'[h] \in {"hdr_update", "append"}]_vars

(***************************************************************************)
(* C34: the process starts with an empty cache, and the cache stays empty  *)
(* until a round of background_cache reads at least one identifier.  A run *)
(* of refresh_map in that interval over an event log with rows admits no   *)
(* row: it answers success with no mapping entry and no publisher count,   *)
(* and what it writes to each derived table is the header row alone.       *)
(***************************************************************************)
C34_EmptyCacheMapsNothing ==
    [][/\ restarts' # restarts => realtime_dids' = {}
       /\ realtime_dids = {} /\ realtime_dids' # {} =>
             \E data \in RealTimeData : BackgroundCache(data) /\ ~NoIdentifiers(data)
       /\ RefreshRan /\ realtime_dids = {} =>
             /\ Len(ringba_raw) > 1
             /\ refresh_http' = "success"
             /\ Entries(did_map_data') = <<>>
             /\ Entries(counts_data') = <<>>
             /\ did_map_data' = <<did_map_headers>>
             /\ counts_data' = <<counts_headers>>
             /\ \A o1 \in ReadOutcomes, o2 \in ReadOutcomes :
                   RefreshMap("ok", o1, o2) =>
                       /\ o1 = "ok" =>
                             did_publisher_map_tab' =
                                update_range(did_publisher_map_tab, <<did_map_headers>>)
                       /\ o2 = "ok" =>
                             publisher_did_counts_tab' =
                                update_range(publisher_did_counts_tab, <<counts_headers>>)]_vars

\* The process has restarted after a run that mapped 111, the cache is empty
\* again, and a run over the log with its three rows has mapped nothing.
C34_Witness ==
    /\ restarts # <<>>
    /\ realtime_dids = {}
    /\ Len(ringba_raw) = 4
    /\ refresh_http = "success"
    /\ did_map_data = <<did_map_headers>>
    /\ counts_data = <<counts_headers>>
    /\ Len(did_publisher_map_tab) = 2
    /\ did_publisher_map_tab[1] = did_map_headers
    /\ publisher_did_counts_tab[1] = counts_headers

\* The step is an iteration of the poller's loop.
PollStep == poller_pc = "loop" /\ poller_pc' = "sleep"

\* The places of 'Ringba Raw' at which the step has put rows of calls.
Appended ==
    {i \in (Len(ringba_raw) + 1)..Len(ringba_raw') : ringba_raw'[i][1] # S("call_id")}

(***************************************************************************)
(* C31: the poller never appends a call_id that the event log already      *)
(* holds, whether the webhook wrote its row, before or after the poller    *)
(* started, or an earlier iteration did, or an earlier row of the same     *)
(* batch.                                                                  *)
(***************************************************************************)
C31_PollerAppendsNoLoggedId ==
    [][PollStep =>
          \A i \in Appended :
             /\ ringba_raw'[i][1].v \notin LoggedIds(ringba_raw)
             /\ \A j \in Appended : j # i => ringba_raw'[j][1] # ringba_raw'[i][1]]_vars

\* The calls an iteration that starts in this state is to write: those of
\* the report in its window that the whitelist lets through and that are not
\* in existing_call_ids.
Due ==
    {c \in report : /\ start_time <= c.at /\ c.at <= utc_now
                    /\ RINGBA_CAMPAIGNS = {} \/ c.campaign \in RINGBA_CAMPAIGNS
                    /\ c.call_id \notin existing_call_ids}

(***************************************************************************)
(* C33: when the sheet write of an iteration raises, existing_call_ids and *)
(* start_time are left as they were, so that the next iteration has the    *)
(* calls of the failed window in its own window: when its fetch and its    *)
(* write succeed, they are in the log.                                     *)
(***************************************************************************)
C33_FailedWriteIsRetried ==
    [][/\ PollStep /\ poll_error' =>
             /\ existing_call_ids' = existing_call_ids
             /\ start_time' = start_time
             /\ Due # {}
       /\ poll_error /\ Poll(AllOk) =>
             \A c \in Due : c.call_id \in LoggedIds(ringba_raw')]_vars

\* The append of an iteration has failed: the poller sleeps with the call of
\* its window still to be written.
C33_Witness ==
    /\ poll_error
    /\ poller_pc = "sleep"
    /\ failures = 1
    /\ \E c \in Due : c.call_id \notin LoggedIds(ringba_raw)

\* The platform reports a call of that name, the whitelist lets it through,
\* and its start lies in the range the poller has advanced past.
Passed(id) ==
    /\ poller_pc # "off"
    /\ \E c \in report :
          /\ c.call_id = id
          /\ RINGBA_CAMPAIGNS = {} \/ c.campaign \in RINGBA_CAMPAIGNS
          /\ first_start <= c.at
          /\ c.at < start_time

(***************************************************************************)
(* C32: every call the platform reports with a start time in the range    *)
(* the poller has advanced past, and that the whitelist does not filter    *)
(* out, is eventually in the event log, even when fetches or writes fail   *)
(* transiently.                                                            *)
(***************************************************************************)
C32_PassedCallsAreRecovered ==
    \A id \in CallNames : Passed(id) ~> (id \in LoggedIds(ringba_raw))

=============================================================================
